---- MODULE Spec2Model ----
(***************************************************************************)
(* Model of app.py: the model loader (load_model), the module start-up     *)
(* that sets model / model_load_error, the input builder (prepare_input)   *)
(* and the two routes, GET / (index) and POST /predict (predict).          *)
(*                                                                         *)
(* Strings are sequences of one-character strings, so that str.strip() and *)
(* float() are computed, not assumed.  Messages are sequences of string    *)
(* tokens; concatenation of messages is \o.                                *)
(***************************************************************************)
EXTENDS Integers, Sequences, FiniteSets, TLC

VARIABLES
    pc,                 \* "init" | "loaded" | "serving"
    loadResult,         \* what load_model did: its return / raise and its locals
    FEATURES,           \* the module-level feature list
    model,              \* the module-level model handle
    model_load_error,   \* the module-level load error
    request,            \* form of the POST /predict being answered, or NoForm
    response,           \* response of that POST /predict, or NoResponse
    page,               \* what the last GET / rendered, or NoPage
    calls,              \* what the last POST /predict called, in order
    validation,         \* how prepare_input ended in that POST, if it ran
    predictArg          \* the frame handed to model.predict, or NoFrame

vars == <<pc, loadResult, FEATURES, model, model_load_error,
          request, response, page, calls, validation, predictArg>>

(***************************************************************************)
(* Bounds                                                                  *)
(***************************************************************************)
\* A submitted form differs from the canonical form in at most this many fields.
MaxEdited == 2

(***************************************************************************)
(* Python values                                                           *)
(***************************************************************************)
None == [some |-> FALSE]
Some(x) == [some |-> TRUE, val |-> x]

\* A number m / 10^e, normalised: e = 0 or m is not a multiple of 10.
Num(m, e) == [m |-> m, e |-> e]

RECURSIVE Normalize(_, _)
Normalize(m, e) ==
    IF e > 0 /\ m % 10 = 0 THEN Normalize(m \div 10, e - 1) ELSE Num(m, e)

Whitespace == {" "}
Digits == {"0", "1", "2", "3", "4", "5", "6", "7", "8", "9"}
DigitVal(c) ==
    CASE c = "0" -> 0 [] c = "1" -> 1 [] c = "2" -> 2 [] c = "3" -> 3
      [] c = "4" -> 4 [] c = "5" -> 5 [] c = "6" -> 6 [] c = "7" -> 7
      [] c = "8" -> 8 [] c = "9" -> 9

\* str.strip(): drop leading and trailing whitespace.
RECURSIVE LStrip(_)
LStrip(s) ==
    IF s # <<>> /\ Head(s) \in Whitespace THEN LStrip(Tail(s)) ELSE s

RECURSIVE RStrip(_)
RStrip(s) ==
    IF s # <<>> /\ s[Len(s)] \in Whitespace
    THEN RStrip(SubSeq(s, 1, Len(s) - 1))
    ELSE s

\* Variant: the value is used as submitted.
Strip_Nothing(s) == s

Strip(s) == RStrip(LStrip(s))

RECURSIVE DigitsToInt(_)
DigitsToInt(ds) ==
    IF ds = <<>> THEN 0
    ELSE 10 * DigitsToInt(SubSeq(ds, 1, Len(ds) - 1)) + DigitVal(ds[Len(ds)])

IsDigit(c) == c \in Digits

\* float(s) for a string s: an optional sign, then digits with at most one
\* decimal point and at least one digit.  (Exponents, "inf", "nan" and digit
\* separators are outside the alphabet the forms are drawn from.)
ParseFloat(s) ==
    LET t == Strip(s)
        signed == t # <<>> /\ Head(t) \in {"+", "-"}
        body == IF signed THEN Tail(t) ELSE t
        dots == {i \in 1..Len(body) : body[i] = "."}
        wellFormed ==
            /\ \A i \in 1..Len(body) : body[i] \in Digits \cup {"."}
            /\ Cardinality(dots) <= 1
            /\ \E i \in 1..Len(body) : body[i] \in Digits
        mant == DigitsToInt(SelectSeq(body, IsDigit))
        scale == IF dots = {} THEN 0 ELSE Len(body) - (CHOOSE i \in dots : TRUE)
        sign == IF signed /\ Head(t) = "-" THEN -1 ELSE 1
    IN  IF wellFormed
        THEN [ok |-> TRUE, val |-> Normalize(sign * mant, scale)]
        ELSE [ok |-> FALSE, val |-> Num(0, 0)]

(***************************************************************************)
(* load_model                                                              *)
(***************************************************************************)
\* What a deserialised artifact can be.  load_model returns whatever object
\* the deserialiser produced; an artifact that holds Python's None gives None.
ModelNone == "None"
Objects == {ModelNone, "ConstModel", "FirstColumnModel", "NoPredict",
            "RaisingModel", "ScalarOutput", "EmptyOutput", "TextOutput"}

\* str(e) of a failing strategy.
Reasons == {"No module named", "invalid load key"}

Strategies == {"joblib", "pickle", "dill"}

Returned(o) == [ok |-> TRUE, obj |-> o, reason |-> ""]
Raised(r) == [ok |-> FALSE, obj |-> ModelNone, reason |-> r]

\* What each deserialiser does with the artifact: returns an object or raises.
Outcomes == {Returned(o) : o \in Objects} \cup {Raised(r) : r \in Reasons}

\* repr() of the list of (name, reason) pairs.
RECURSIVE ReprPairs(_)
ReprPairs(errs) ==
    IF errs = <<>> THEN <<>>
    ELSE <<"('", errs[1][1], "', '", errs[1][2], "')">>
         \o (IF Len(errs) > 1 THEN <<", ">> ELSE <<>>)
         \o ReprPairs(Tail(errs))

Repr(errs) == <<"[">> \o ReprPairs(errs) \o <<"]">>

LoadErrorPrefix ==
    <<"Model could not be loaded. Tried joblib, pickle(latin1), dill. Errors: ">>

\* The result of load_model: a returned object, or the RuntimeError raised,
\* with the function's locals (errs) and the strategies it ran, in order.
LoadReturn(m, errs, ran) ==
    [returned |-> TRUE, m |-> m, errs |-> errs, attempted |-> ran,
     error |-> <<>>]
LoadRaise(errs, ran) ==
    [returned |-> FALSE, m |-> ModelNone, errs |-> errs, attempted |-> ran,
     error |-> LoadErrorPrefix \o Repr(errs)]

\* Variant: a failure of the first strategy is raised at once.
load_model_NoFallback(out) ==
    IF out["joblib"].ok
    THEN LoadReturn(out["joblib"].obj, <<>>, <<"joblib">>)
    ELSE LoadRaise(<<<<"joblib", out["joblib"].reason>>>>, <<"joblib">>)

load_model(out) ==
    IF out["joblib"].ok
    THEN LoadReturn(out["joblib"].obj, <<>>, <<"joblib">>)
    ELSE LET errs1 == <<<<"joblib", out["joblib"].reason>>>> IN
    IF out["pickle"].ok
    THEN LoadReturn(out["pickle"].obj, errs1, <<"joblib", "pickle">>)
    ELSE LET errs2 == Append(errs1, <<"pickle_latin1", out["pickle"].reason>>) IN
    IF out["dill"].ok
    THEN LoadReturn(out["dill"].obj, errs2, <<"joblib", "pickle", "dill">>)
    ELSE LET errs3 == Append(errs2, <<"dill", out["dill"].reason>>) IN
    LoadRaise(errs3, <<"joblib", "pickle", "dill">>)

\* loadResult before load_model has run, and after its frame is gone.
NoCall == [called |-> FALSE]

(***************************************************************************)
(* Module-level data                                                       *)
(***************************************************************************)
FeatureList ==
    <<"Number_of_Customers_Per_Day", "Average_Order_Value",
      "Operating_Hours_Per_Day", "Number_of_Employees",
      "Marketing_Spend_Per_Day", "Location_Foot_Traffic">>

FeatureNames == {FeatureList[i] : i \in 1..Len(FeatureList)}

(***************************************************************************)
(* prepare_input                                                           *)
(***************************************************************************)
\* form.get(feat, ""): the submitted string, or "" when the key is absent.
FormGet(form, feat) == IF feat \in DOMAIN form THEN form[feat] ELSE <<>>

MissingValue(feat) == <<"Missing value for ", feat>>
\* Variant: the message does not echo the value.
InvalidValue_NoEcho(feat, raw) == <<"Invalid numeric value for ", feat>>

InvalidValue(feat, raw) ==
    <<"Invalid numeric value for ", feat, ": '">> \o raw \o <<"'">>

\* pd.DataFrame([values], columns=FEATURES): one row under the given columns.
DataFrame(values, columns) == [columns |-> columns, row |-> values]
NoFrame == [columns |-> <<>>, row |-> <<>>]

\* Variant: every column gets the first value of the row.
ToRecord_FirstValue(df) ==
    [c \in {df.columns[i] : i \in 1..Len(df.columns)} |-> df.row[1]]

\* df.to_dict(orient="records")[0]: column name -> value of the single row.
ToRecord(df) ==
    [c \in {df.columns[i] : i \in 1..Len(df.columns)} |->
        df.row[CHOOSE i \in 1..Len(df.columns) : df.columns[i] = c]]

\* Variant: the loop goes on after an offending field, and the error of the
\* last offending field is the one raised.
RECURSIVE CollectValues_KeepsGoing(_, _, _)
CollectValues_KeepsGoing(form, i, values) ==
    IF i > Len(FEATURES)
    THEN [ok |-> TRUE, df |-> DataFrame(values, FEATURES), error |-> <<>>,
          examined |-> FEATURES]
    ELSE LET feat == FEATURES[i]
             raw == Strip(FormGet(form, feat))
             parsed == ParseFloat(raw)
             rest == CollectValues_KeepsGoing(form, i + 1, values)
         IN  IF raw = <<>> \/ ~parsed.ok
             THEN IF ~rest.ok THEN rest
                  ELSE [ok |-> FALSE, df |-> NoFrame,
                        error |-> IF raw = <<>> THEN MissingValue(feat)
                                  ELSE InvalidValue(feat, raw),
                        examined |-> FEATURES]
             ELSE CollectValues_KeepsGoing(form, i + 1,
                                           Append(values, parsed.val))

\* The loop of prepare_input from field i on, with the values collected so far.
RECURSIVE CollectValues(_, _, _)
CollectValues(form, i, values) ==
    IF i > Len(FEATURES)
    THEN [ok |-> TRUE, df |-> DataFrame(values, FEATURES), error |-> <<>>,
          examined |-> FEATURES]
    ELSE LET feat == FEATURES[i]
             raw == Strip(FormGet(form, feat))
             parsed == ParseFloat(raw)
         IN  IF raw = <<>>
             THEN [ok |-> FALSE, df |-> NoFrame, error |-> MissingValue(feat),
                   examined |-> SubSeq(FEATURES, 1, i)]
             ELSE IF ~parsed.ok
             THEN [ok |-> FALSE, df |-> NoFrame,
                   error |-> InvalidValue(feat, raw),
                   examined |-> SubSeq(FEATURES, 1, i)]
             ELSE CollectValues(form, i + 1, Append(values, parsed.val))

prepare_input(form) == CollectValues(form, 1, <<>>)

(***************************************************************************)
(* The loaded object's predict, and reading its output                     *)
(***************************************************************************)
NumItem(n) == [t |-> "num", n |-> n, s |-> ""]
TextItem(s) == [t |-> "str", n |-> Num(0, 0), s |-> s]

ArrayOutput(items) == [raised |-> FALSE, error |-> <<>>, subscriptable |-> TRUE,
                       items |-> items]
ScalarOutput(item) == [raised |-> FALSE, error |-> <<>>, subscriptable |-> FALSE,
                       items |-> <<item>>]
PredictRaises(msg) == [raised |-> TRUE, error |-> msg, subscriptable |-> FALSE,
                       items |-> <<>>]

\* model.predict(df) for each kind of loaded object.
ModelPredict(obj, df) ==
    CASE obj = "ConstModel" -> ArrayOutput(<<NumItem(Num(42, 0))>>)
      [] obj = "FirstColumnModel" -> ArrayOutput(<<NumItem(df.row[1])>>)
      [] obj = "NoPredict" ->
            PredictRaises(<<"'dict' object has no attribute 'predict'">>)
      [] obj = "RaisingModel" ->
            PredictRaises(<<"X has 6 features, but model is expecting 5">>)
      [] obj = "ScalarOutput" -> ScalarOutput(NumItem(Num(42, 0)))
      [] obj = "EmptyOutput" -> ArrayOutput(<<>>)
      [] obj = "TextOutput" -> ArrayOutput(<<TextItem("n/a")>>)
      [] obj = ModelNone ->
            PredictRaises(<<"'NoneType' object has no attribute 'predict'">>)

\* float(pred[0]): the first element as a float, or the error raised.
FirstAsFloat(pred) ==
    IF ~pred.subscriptable
    THEN [ok |-> FALSE, val |-> Num(0, 0),
          error |-> <<"object is not subscriptable">>]
    ELSE IF pred.items = <<>>
    THEN [ok |-> FALSE, val |-> Num(0, 0),
          error |-> <<"index 0 is out of bounds">>]
    ELSE IF pred.items[1].t # "num"
    THEN [ok |-> FALSE, val |-> Num(0, 0),
          error |-> <<"could not convert string to float: '",
                      pred.items[1].s, "'">>]
    ELSE [ok |-> TRUE, val |-> pred.items[1].n, error |-> <<>>]

(***************************************************************************)
(* The routes                                                              *)
(***************************************************************************)
NoForm == [absent |-> TRUE]
NoResponse == [status |-> 0]
NoPage == [rendered |-> FALSE]

\* jsonify({...}), status
Failure(status, msg) ==
    [status |-> status, body |-> [success |-> FALSE, error |-> msg]]
Success(revenue, input) ==
    [status |-> 200,
     body |-> [success |-> TRUE, prediction |-> revenue, input |-> input]]

\* Variant: the stored error is not used.
ErrorOrUnknown_Dropped(err) == <<"unknown">>

\* model_load_error or "unknown"
ErrorOrUnknown(err) ==
    IF err.some /\ err.val # <<>> THEN err.val ELSE <<"unknown">>

\* Variants: the validation message is wrapped; a prediction failure is
\* reported as a client error.
ValidationFailed_Wrapped(msg) == Failure(400, <<"Invalid input: ">> \o msg)
PredictionFailed_AsClientError(msg) ==
    Failure(400, <<"Model prediction failed: ">> \o msg)

\* The three failure responses of predict.
ModelNotLoaded(err) ==
    Failure(500, <<"Model not loaded: ">> \o ErrorOrUnknown(err))
ValidationFailed(msg) == Failure(400, msg)
PredictionFailed(msg) == Failure(500, <<"Model prediction failed: ">> \o msg)

\* Variant: a handler that answers 500 drops the model handle.
Handled_DropsModel(resp, called, valid, arg) ==
    [response |-> resp, calls |-> called, validation |-> valid,
     predictArg |-> arg,
     model |-> IF resp.status = 500 THEN ModelNone ELSE model,
     model_load_error |-> model_load_error]

\* What one run of a handler leaves behind: its response, what it called, and
\* the module-level names it declares global.
Handled(resp, called, valid, arg) ==
    [response |-> resp, calls |-> called, validation |-> valid,
     predictArg |-> arg, model |-> model,
     model_load_error |-> model_load_error]

\* prepare_input did not run / how it ended (returned, or raised `error`) and
\* the fields it had looked up by then.
NotValidated == [ran |-> FALSE]
Validated(built) ==
    [ran |-> TRUE, ok |-> built.ok, error |-> built.error,
     examined |-> built.examined]

\* POST /predict
predict(form) ==
    IF model = ModelNone
    THEN Handled(ModelNotLoaded(model_load_error), <<>>, NotValidated, NoFrame)
    ELSE LET built == prepare_input(form) IN
    IF ~built.ok
    THEN Handled(ValidationFailed(built.error),
                 <<"prepare_input">>, Validated(built), NoFrame)
    ELSE LET pred == ModelPredict(model, built.df) IN
    IF pred.raised
    THEN Handled(PredictionFailed(pred.error),
                 <<"prepare_input", "model.predict">>, Validated(built), built.df)
    ELSE LET revenue == FirstAsFloat(pred) IN
    IF ~revenue.ok
    THEN Handled(PredictionFailed(revenue.error),
                 <<"prepare_input", "model.predict">>, Validated(built), built.df)
    ELSE Handled(Success(revenue.val, ToRecord(built.df)),
                 <<"prepare_input", "model.predict">>, Validated(built), built.df)

\* GET /
index == [rendered |-> TRUE, features |-> FEATURES,
          model_error |-> model_load_error]

\* Variant: the except branch does not keep the error.
startup_ErrorNotKept(res) ==
    IF res.returned
    THEN [model |-> res.m, model_load_error |-> None]
    ELSE [model |-> ModelNone, model_load_error |-> None]

\* The module-level try / except / else around load_model.
startup(res) ==
    IF res.returned
    THEN [model |-> res.m, model_load_error |-> None]
    ELSE [model |-> ModelNone, model_load_error |-> Some(res.error)]

(***************************************************************************)
(* Submitted forms                                                         *)
(***************************************************************************)
CanonicalForm ==
    [f \in FeatureNames |->
        CASE f = "Number_of_Customers_Per_Day" -> <<"1", "0", "0">>
          [] f = "Average_Order_Value" -> <<"5", ".", "5">>
          [] f = "Operating_Hours_Per_Day" -> <<"1", "0">>
          [] f = "Number_of_Employees" -> <<"3">>
          [] f = "Marketing_Spend_Per_Day" -> <<"2", "0">>
          [] f = "Location_Foot_Traffic" -> <<"2", "0", "0">>]

\* Strings a client may put in a field besides the canonical ones: empty,
\* blank, numeric (padded, signed with a fraction) and non-numeric (bare,
\* padded).
RawInputs ==
    {<<>>, <<" ", " ">>, <<" ", "7", " ">>, <<"-", "2", ".", "5">>,
     <<"a", "b", "c">>, <<" ", "x", "1", " ">>}

\* The canonical form with the keys in `removed` left out and the fields of
\* `edits` overwritten.
EditedForm(removed, edits) ==
    [f \in FeatureNames \ removed |->
        IF f \in DOMAIN edits THEN edits[f] ELSE CanonicalForm[f]]

(***************************************************************************)
(* Actions                                                                 *)
(***************************************************************************)
Init ==
    /\ pc = "init"
    /\ loadResult = NoCall
    /\ FEATURES = FeatureList
    /\ model = ModelNone
    /\ model_load_error = None
    /\ request = NoForm
    /\ response = NoResponse
    /\ page = NoPage
    /\ calls = <<>>
    /\ validation = NotValidated
    /\ predictArg = NoFrame

\* load_model(MODEL_PATH), for whatever the three deserialisers do with the file.
LoadModel ==
    /\ pc = "init"
    /\ \E out \in [Strategies -> Outcomes] :
          loadResult' = [called |-> TRUE, outcomes |-> out, result |-> load_model(out)]
    /\ pc' = "loaded"
    /\ UNCHANGED <<FEATURES, model, model_load_error, request, response, page,
                   calls, validation, predictArg>>

\* The module-level assignment of model and model_load_error; load_model's
\* frame is gone afterwards.
Startup ==
    /\ pc = "loaded"
    /\ model' = startup(loadResult.result).model
    /\ model_load_error' = startup(loadResult.result).model_load_error
    /\ loadResult' = NoCall
    /\ pc' = "serving"
    /\ UNCHANGED <<FEATURES, request, response, page, calls, validation,
                   predictArg>>

\* One POST /predict carrying `form`.
Serve(form) ==
    \E h \in {predict(form)} :
    /\ request' = form
    /\ response' = h.response
    /\ calls' = h.calls
    /\ validation' = h.validation
    /\ predictArg' = h.predictArg
    /\ model' = h.model
    /\ model_load_error' = h.model_load_error
    /\ UNCHANGED <<pc, loadResult, FEATURES, page>>

\* A client posts a form.
PostPredict ==
    /\ pc = "serving"
    /\ request = NoForm
    /\ \E S \in SUBSET FeatureNames :
          /\ Cardinality(S) <= MaxEdited
          /\ \E removed \in SUBSET S :
                \E edits \in [S \ removed -> RawInputs] :
                    Serve(EditedForm(removed, edits))

\* The client posts the same form again.
RepeatPredict ==
    /\ pc = "serving"
    /\ request # NoForm
    /\ Serve(request)

\* A client gets the page.
GetIndex ==
    /\ pc = "serving"
    /\ page' = index
    /\ UNCHANGED <<pc, loadResult, FEATURES, model, model_load_error, request,
                   response, calls, validation, predictArg>>

\* The responses have been sent; the per-request data is discarded.
Discard ==
    /\ pc = "serving"
    /\ request # NoForm \/ page # NoPage
    /\ request' = NoForm
    /\ response' = NoResponse
    /\ page' = NoPage
    /\ calls' = <<>>
    /\ validation' = NotValidated
    /\ predictArg' = NoFrame
    /\ UNCHANGED <<pc, loadResult, FEATURES, model, model_load_error>>

Next ==
    \/ LoadModel
    \/ Startup
    \/ PostPredict
    \/ RepeatPredict
    \/ GetIndex
    \/ Discard

Spec == Init /\ [][Next]_vars

(***************************************************************************)
(* Vocabulary of the properties                                            *)
(***************************************************************************)
\* `part` occurs in `msg` as a contiguous piece.
Contains(msg, part) ==
    \E i \in 0..(Len(msg) - Len(part)) :
        SubSeq(msg, i + 1, i + Len(part)) = part

Order == <<"joblib", "pickle", "dill">>
Label == <<"joblib", "pickle_latin1", "dill">>

Serving == pc = "serving"
Answered == pc = "serving" /\ request # NoForm
HandleAbsent == model = ModelNone

\* Classification of the submitted value of field f.
Blank(form, f) ==
    f \notin DOMAIN form \/ \A i \in 1..Len(form[f]) : form[f][i] \in Whitespace
NonNumeric(form, f) == ~Blank(form, f) /\ ~ParseFloat(form[f]).ok
Offending(form, f) == Blank(form, f) \/ NonNumeric(form, f)
AllNumeric(form) == \A f \in FeatureNames : ~Offending(form, f)
Pos(f) == CHOOSE i \in 1..Len(FeatureList) : FeatureList[i] = f
EarlierNumeric(form, f) ==
    \A g \in FeatureNames : Pos(g) < Pos(f) => ~Offending(form, g)

(***************************************************************************)
(* C6: the loader                                                          *)
(***************************************************************************)
\* C6: load_model runs the strategies in the order joblib, pickle, dill; it
\* returns the object of the first strategy that succeeds and runs none after
\* it, having only recorded the failures before it; it raises exactly when
\* all three fail, and the error raised names each strategy with its reason.
C6_FirstSuccessWins ==
    (pc = "loaded") =>
        LET out == loadResult.outcomes
            r == loadResult.result
            ok == {i \in 1..3 : out[Order[i]].ok}
        IN  /\ r.returned <=> ok # {}
            /\ \A k \in ok :
                  (\A j \in ok : k <= j) =>
                      /\ r.m = out[Order[k]].obj
                      /\ r.attempted = SubSeq(Order, 1, k)
                      /\ Len(r.errs) = k - 1
                      /\ \A j \in 1..(k - 1) :
                            r.errs[j] = <<Label[j], out[Order[j]].reason>>
            /\ ok = {} =>
                  /\ r.attempted = Order
                  /\ \A j \in 1..3 :
                        /\ Contains(r.error,
                               <<Label[j], "', '", out[Order[j]].reason>>)
                        /\ Contains(r.error, <<"Model could not be loaded. Tried joblib, pickle(latin1), dill. Errors: ">>)

\* Only the third strategy succeeded, and its object was returned.
C6_Witness ==
    /\ pc = "loaded"
    /\ ~loadResult.outcomes["joblib"].ok
    /\ ~loadResult.outcomes["pickle"].ok
    /\ loadResult.outcomes["dill"].ok
    /\ loadResult.result.returned
    /\ loadResult.result.m = "ConstModel"

(***************************************************************************)
(* C8: the state after start-up                                            *)
(***************************************************************************)
AggregatedError(msg) ==
    /\ Contains(msg, LoadErrorPrefix)
    /\ \A j \in 1..3 : \E r \in Reasons : Contains(msg, <<Label[j], "', '", r>>)

\* C8 as stated: after start-up either a handle is present and the load error
\* is unset, or the handle is absent and the load error holds the loader's
\* aggregated message.
C8_TwoStates ==
    Serving =>
        \/ ~HandleAbsent /\ model_load_error = None
        \/ HandleAbsent /\ model_load_error.some
              /\ AggregatedError(model_load_error.val)

\* C8: start-up always completes, and for every outcome of the loader the
\* state after it is one of three: a handle is present and the load error is
\* unset; the handle is absent and the load error is the loader's aggregated
\* message; or, when the artifact deserialised to None, the handle is absent
\* and the load error is unset.  The load error is never set while a handle
\* is present.
C8_StartupStates ==
    /\ [](pc # "serving" => ENABLED (LoadModel \/ Startup))
    /\ [](Serving /\ ~HandleAbsent => model_load_error = None)
    /\ [][pc = "loaded" =>
            LET r == loadResult.result IN
            /\ pc' = "serving"
            /\ (r.returned /\ r.m # ModelNone) =>
                   model' = r.m /\ model_load_error' = None
            /\ (r.returned /\ r.m = ModelNone) =>
                   model' = ModelNone /\ model_load_error' = None
            /\ ~r.returned =>
                   /\ model' = ModelNone
                   /\ model_load_error' = Some(r.error)
                   /\ AggregatedError(r.error)]_vars

\* Start-up has ended with the handle absent and no load error stored.
C8_Witness == Serving /\ HandleAbsent /\ model_load_error = None /\ page # NoPage

(***************************************************************************)
(* C1: requests while the handle is absent                                 *)
(***************************************************************************)
\* C1 as stated: with the handle absent every POST /predict is answered 500
\* with success false and a message that contains the stored load error, and
\* neither prepare_input nor model.predict runs.
C1_ContainsLoadError ==
    (Answered /\ HandleAbsent) =>
        /\ response.status = 500
        /\ response.body.success = FALSE
        /\ model_load_error.some
        /\ Contains(response.body.error, model_load_error.val)
        /\ calls = <<>> /\ ~validation.ran /\ predictArg = NoFrame

\* C1: with the handle absent every POST /predict, whatever its form, is
\* answered 500 with success false and the message "Model not loaded: "
\* followed by the stored load error, or by "unknown" when none is stored;
\* neither prepare_input nor model.predict runs.
C1_ModelNotLoaded ==
    (Answered /\ HandleAbsent) =>
        /\ response.status = 500
        /\ DOMAIN response.body = {"success", "error"}
        /\ response.body.success = FALSE
        /\ model_load_error.some =>
              /\ Contains(response.body.error, model_load_error.val)
              /\ response.body.error
                    = <<"Model not loaded: ">> \o model_load_error.val
        /\ ~model_load_error.some =>
              response.body.error = <<"Model not loaded: ", "unknown">>
        /\ calls = <<>> /\ ~validation.ran /\ predictArg = NoFrame

\* A form with an offending field was answered 500 with the load error.
C1_Witness ==
    /\ Answered /\ HandleAbsent /\ model_load_error.some
    /\ ~AllNumeric(request)
    /\ response.status = 500

(***************************************************************************)
(* C2: the success path                                                    *)
(***************************************************************************)
\* The six parsed values of a form, in schema order.
ParsedRow(form) ==
    [i \in 1..Len(FeatureList) |-> ParseFloat(form[FeatureList[i]]).val]

ReadsAsNumber(out) ==
    /\ ~out.raised /\ out.subscriptable
    /\ out.items # <<>> /\ out.items[1].t = "num"

\* C2: for a form whose six fields are numeric strings and a loaded model
\* whose predict returns an output with a number as first element, the
\* answer is a success whose prediction is that first element and whose input
\* echo has exactly the six schema fields with the parsed values; the frame
\* given to the model has the six values in schema order.
C2_Success ==
    (Answered /\ ~HandleAbsent /\ AllNumeric(request)) =>
        LET out == ModelPredict(model, DataFrame(ParsedRow(request), FeatureList))
        IN  ReadsAsNumber(out) =>
              /\ response.status = 200
              /\ DOMAIN response.body = {"success", "prediction", "input"}
              /\ response.body.success = TRUE
              /\ response.body.prediction = out.items[1].n
              /\ DOMAIN response.body.input = FeatureNames
              /\ \A f \in FeatureNames :
                    response.body.input[f] = ParseFloat(request[f]).val
              /\ predictArg.columns = FeatureList
              /\ Len(predictArg.row) = Len(FeatureList)
              /\ \A i \in 1..Len(FeatureList) :
                    predictArg.row[i] = ParseFloat(request[FeatureList[i]]).val

\* The canonical form, answered by a model that returns [42.0].
C2_Witness ==
    /\ Answered /\ model = "ConstModel" /\ request = CanonicalForm
    /\ response.status = 200
    /\ response.body.prediction = Num(42, 0)
    /\ response.body.input["Number_of_Customers_Per_Day"] = Num(100, 0)
    /\ response.body.input["Average_Order_Value"] = Num(55, 1)
    /\ response.body.input["Operating_Hours_Per_Day"] = Num(10, 0)
    /\ response.body.input["Number_of_Employees"] = Num(3, 0)
    /\ response.body.input["Marketing_Spend_Per_Day"] = Num(20, 0)
    /\ response.body.input["Location_Foot_Traffic"] = Num(200, 0)

(***************************************************************************)
(* C3: validation failures                                                 *)
(***************************************************************************)
\* C3: with a model loaded, a form with a missing, blank or non-numeric field
\* is answered 400 with success false and exactly the message prepare_input
\* raised, and model.predict is not called.
C3_ValidationFailure ==
    (Answered /\ ~HandleAbsent /\ ~AllNumeric(request)) =>
        /\ validation.ran /\ ~validation.ok
        /\ \E f \in FeatureNames :
              \/ validation.error = <<"Missing value for ", f>>
              \/ /\ Len(validation.error) > 3
                 /\ SubSeq(validation.error, 1, 3)
                       = <<"Invalid numeric value for ", f, ": '">>
        /\ response.status = 400
        /\ response.body = [success |-> FALSE, error |-> validation.error]
        /\ calls = <<"prepare_input">>
        /\ predictArg = NoFrame

\* A form without its third field was answered 400.
C3_Witness ==
    /\ Answered /\ model = "ConstModel"
    /\ "Operating_Hours_Per_Day" \notin DOMAIN request
    /\ response.status = 400
    /\ response.body.error = <<"Missing value for ", "Operating_Hours_Per_Day">>

(***************************************************************************)
(* C7: prediction failures                                                 *)
(***************************************************************************)
\* C7: with a model loaded and a valid form, a predict that raises, or an
\* output that cannot be read as a number (not subscriptable, empty, first
\* element not a number), is answered 500 with success false and the message
\* "Model prediction failed: " followed by the underlying error's message;
\* the request is answered and the answer is never a success.
C7_PredictionFailure ==
    (Answered /\ ~HandleAbsent /\ AllNumeric(request)) =>
        LET out == ModelPredict(model, DataFrame(ParsedRow(request), FeatureList))
            underlying ==
                CASE model = "NoPredict" ->
                        <<"'dict' object has no attribute 'predict'">>
                  [] model = "RaisingModel" ->
                        <<"X has 6 features, but model is expecting 5">>
                  [] model = "ScalarOutput" -> <<"object is not subscriptable">>
                  [] model = "EmptyOutput" -> <<"index 0 is out of bounds">>
                  [] model = "TextOutput" ->
                        <<"could not convert string to float: '", "n/a", "'">>
        IN  ~ReadsAsNumber(out) =>
              /\ response # NoResponse
              /\ response.status = 500
              /\ response.body =
                    [success |-> FALSE,
                     error |-> <<"Model prediction failed: ">> \o underlying]
              /\ calls = <<"prepare_input", "model.predict">>

\* A model whose output is not subscriptable was given a valid form.
C7_Witness ==
    /\ Answered /\ model = "ScalarOutput" /\ AllNumeric(request)
    /\ response.status = 500
    /\ predictArg # NoFrame

(***************************************************************************)
(* C4, C5, C10: what prepare_input reports                                 *)
(***************************************************************************)
\* prepare_input ran on the form of the request.
Validating == Answered /\ validation.ran

\* The submitted string without its leading and trailing whitespace.
Trimmed(str) ==
    LET solid == {i \in 1..Len(str) : str[i] \notin Whitespace} IN
    IF solid = {} THEN <<>>
    ELSE SubSeq(str, CHOOSE i \in solid : \A j \in solid : i <= j,
                     CHOOSE i \in solid : \A j \in solid : j <= i)

\* C4 as stated: a missing or blank field makes prepare_input fail with the
\* 'Missing value' error naming that field, whatever the other fields hold.
C4_AnyBlankFieldNamed ==
    Validating =>
        \A f \in FeatureNames :
            Blank(request, f) =>
                /\ ~validation.ok
                /\ validation.error = <<"Missing value for ", f>>

\* C4: a missing or blank field makes prepare_input fail, the same way each
\* time the form is submitted; when every field before it in the schema holds
\* a number, the error is the 'Missing value' error naming that field.
C4_BlankFieldNamed ==
    /\ [](Validating =>
            \A f \in FeatureNames :
                Blank(request, f) =>
                    /\ ~validation.ok
                    /\ EarlierNumeric(request, f) =>
                          validation.error = <<"Missing value for ", f>>)
    /\ [][(Validating /\ request' = request) => validation' = validation]_vars

\* A blank (whitespace only) fourth field was reported as missing.
C4_Witness ==
    /\ Validating
    /\ "Number_of_Employees" \in DOMAIN request
    /\ request["Number_of_Employees"] = <<" ", " ">>
    /\ validation.error = <<"Missing value for ", "Number_of_Employees">>

\* C5 as stated: a non-blank, non-numeric field makes prepare_input fail with
\* the 'Invalid numeric value' error naming that field and echoing the raw
\* submitted value.
C5_AnyInvalidFieldEchoed ==
    Validating =>
        \A f \in FeatureNames :
            NonNumeric(request, f) =>
                /\ ~validation.ok
                /\ validation.error
                      = <<"Invalid numeric value for ", f, ": '">>
                        \o request[f] \o <<"'">>

\* C5: a non-blank, non-numeric field makes prepare_input fail, the same way
\* each time the form is submitted; when every field before it in the schema
\* holds a number, the error is the 'Invalid numeric value' error naming that
\* field and echoing the submitted value without its surrounding whitespace.
C5_InvalidFieldEchoed ==
    /\ [](Validating =>
            \A f \in FeatureNames :
                NonNumeric(request, f) =>
                    /\ ~validation.ok
                    /\ EarlierNumeric(request, f) =>
                          validation.error
                              = <<"Invalid numeric value for ", f, ": '">>
                                \o Trimmed(request[f]) \o <<"'">>)
    /\ [][(Validating /\ request' = request) => validation' = validation]_vars

\* A padded non-numeric second field was echoed without its padding.
C5_Witness ==
    /\ Validating
    /\ "Average_Order_Value" \in DOMAIN request
    /\ request["Average_Order_Value"] = <<" ", "x", "1", " ">>
    /\ validation.error
          = <<"Invalid numeric value for ", "Average_Order_Value", ": '",
              "x", "1", "'">>

\* C10: prepare_input looks the fields up in schema order and stops at the
\* first offending one: the error is that field's, of that field's kind, and
\* no field after it has been looked up.
C10_FirstOffendingField ==
    Validating =>
        LET bad == {i \in 1..Len(FeatureList) : Offending(request, FeatureList[i])}
        IN  /\ validation.ok <=> bad = {}
            /\ bad = {} => validation.examined = FeatureList
            /\ \A k \in bad :
                  (\A j \in bad : k <= j) =>
                      /\ validation.examined = SubSeq(FeatureList, 1, k)
                      /\ Blank(request, FeatureList[k]) =>
                            validation.error
                                = <<"Missing value for ", FeatureList[k]>>
                      /\ NonNumeric(request, FeatureList[k]) =>
                            /\ Len(validation.error) > 3
                            /\ SubSeq(validation.error, 1, 3)
                                  = <<"Invalid numeric value for ",
                                      FeatureList[k], ": '">>

\* Two offending fields: the second is non-numeric, the fifth is missing, and
\* the error is the second's.
C10_Witness ==
    /\ Validating
    /\ NonNumeric(request, "Average_Order_Value")
    /\ "Marketing_Spend_Per_Day" \notin DOMAIN request
    /\ validation.examined
          = <<"Number_of_Customers_Per_Day", "Average_Order_Value">>
    /\ validation.error[2] = "Average_Order_Value"

====
